---- MODULE Spec2Model ----
(***************************************************************************)
(* Model of the training loop of minGPT/mingpt/trainer.py (class Trainer)  *)
(* and of the synthetic dataset of train_fsdp.py (class SortDataset).      *)
(*                                                                         *)
(* Three specifications share the module:                                   *)
(*   Spec          Trainer.run() under every configuration                 *)
(*   CallbackSpec  the callback registry around runs that terminate        *)
(*   DataSpec      SortDataset.__getitem__ in interpreter processes        *)
(*                                                                         *)
(* Trainer.__init__ cannot be executed as written (line 80 reads the       *)
(* undefined name confit; line 85 reads os.env).  The model starts from    *)
(* the fields __init__ assigns, with use_fsdp taken from the config as     *)
(* line 80 evidently intends, and models run() and the registry methods    *)
(* on that object.                                                         *)
(***************************************************************************)
EXTENDS Integers, Sequences, FiniteSets, TLC

\* ------------------------------------------------------------------ bounds
MaxIters == 2       \* largest finite config.max_iters explored
MaxCross == 2       \* largest config.cross_batch_num explored
MaxCycles == 3      \* cycles explored when max_iters is None
MaxRuns == 2        \* calls of run() on one trainer
MaxCallbacks == 2   \* handlers per event
MaxLen == 3         \* largest SortDataset length explored
MaxRejects == 1     \* re-samples explored within one __getitem__

\* ------------------------------------------------------- program constants
DatasetLen == 10000          \* SortDataset.__len__
NumSamplesRoot == 100000     \* RandomSampler num_samples = int(1e10) = 100000 * 100000
DefaultNumDigits == 3        \* SortDataset.__init__(..., num_digits=3)
IgnoreIndex == -1            \* y[:self.length-1] = -1
TestModulus == 4             \* 'test' if h % 4 == 0
HashBits == 8                \* width kept of the hash value
HashMultiplier == 1000003    \* multiplier of the byte-string hash

\* ------------------------------------------------------------------ inputs
None == <<>>
IsNone(m) == m = None
Some(n) == <<n>>
MaxItersValues == {None} \cup {Some(n) : n \in -1..MaxIters}
BatchSizes == {5000, 10000}
WorldSizes == {1, 2}
Events == {"on_batch_end", "on_eval"}
Handlers == {"batch_end_callback", "other_callback"}
ClockTicks == {0, 1}
Procs == {1, 2}
HashKeys == {0, 1}
Splits == {"train", "test"}

Configs ==
    [max_iters : MaxItersValues,
     cross_batch_num : 1..MaxCross,
     use_fsdp : BOOLEAN,
     batch_size : BatchSizes]

VARIABLES
    config,      \* self.config (max_iters, cross_batch_num, use_fsdp, batch_size)
    world_size,  \* size of the process group (DistributedSampler num_replicas)
    callbacks,   \* self.callbacks: event name -> list of handlers
    iter_num,    \* self.iter_num
    iter_time,   \* self.iter_time
    iter_dt,     \* self.iter_dt
    pc,          \* position of the control flow of run()
    i,           \* passes started in the current accumulation cycle
    data_left,   \* batches the current data_iter can still yield
    now,         \* the wall clock read by time.time()
    grad,        \* passes whose backward() is held in the gradient buffers
    exc,         \* exception that left run(), "none" otherwise
    runs,        \* number of run() calls started
    trace,       \* events of the current run, in program order
    calls,       \* handler invocations of the current run
    stamps,      \* values time.time() returned during the current run
    stepGrads,   \* contents of the gradient buffers at each optimizer step
    regOrder     \* per event, the handlers in the order the caller registered them

tvars == <<config, world_size, callbacks, iter_num, iter_time, iter_dt, pc, i,
           data_left, now, grad, exc, runs, trace, calls, stamps, stepGrads,
           regOrder>>

VARIABLES
    length,      \* SortDataset.length
    num_digits,  \* SortDataset.num_digits
    hashkey,     \* per interpreter process, the key of its randomized hash()
    dcall,       \* the __getitem__ call in progress: <<>> or <<[proc, split]>>
    rejected,    \* samples the call in progress has discarded
    item,        \* the example __getitem__ returned last: <<>> or <<record>>
    repeat       \* the splits of the last two returns when they returned the same
                 \* input sequence, <<>> otherwise

dvars == <<length, num_digits, hashkey, dcall, rejected, item, repeat>>

vars == <<tvars, dvars>>

\* ----------------------------------------------------------------- helpers
CeilDiv(a, b) == (a + b - 1) \div b

Count(s, e) == Len(SelectSeq(s, LAMBDA x : x = e))

\* len(DataLoader) over DistributedSampler(dataset): ceil(ceil(len/world)/bs)
DistributedBatches(bs, world) == CeilDiv(CeilDiv(DatasetLen, world), bs)

\* len(DataLoader) over RandomSampler(num_samples=int(1e10)); 1e10 does not fit
\* a machine integer here, so it is written as NumSamplesRoot * NumSamplesRoot
\* (exact for the batch sizes explored, which divide NumSamplesRoot)
RandomBatches(bs) == (NumSamplesRoot \div bs) * NumSamplesRoot

LoaderLen(cfg, world) ==
    IF cfg.use_fsdp THEN DistributedBatches(cfg.batch_size, world)
    ELSE RandomBatches(cfg.batch_size)

\* faulty variant: the test lets one more cycle through
ShouldBreak_Late(max_iters, n) == ~IsNone(max_iters) /\ n > max_iters[1]

\* line 175: config.max_iters is not None and self.iter_num >= config.max_iters
ShouldBreak(max_iters, n) == ~IsNone(max_iters) /\ n >= max_iters[1]

\* faulty variant: the accumulation loop is left after its first pass
ForNext_StepEveryPass(started, steps) == IF started < 1 THEN "fetch" ELSE "opt_step"

\* line 150: for i in range(steps)
ForNext(started, steps) == IF started < steps THEN "fetch" ELSE "opt_step"

\* faulty variant: the gradients are clipped before backward() has produced them
NextInPass_ClipBeforeBackward(p) ==
    CASE p = "forward" -> "zero_grad"
      [] p = "zero_grad" -> "clip"
      [] p = "clip" -> "backward"
      [] p = "backward" -> "for"

\* lines 160-165: forward, zero_grad, backward, clip_grad_norm_
NextInPass(p) ==
    CASE p = "forward" -> "zero_grad"
      [] p = "zero_grad" -> "backward"
      [] p = "backward" -> "clip"
      [] p = "clip" -> "for"

\* lines 166-172: optimizer.step, trigger_callbacks, iteration state update
NextInCycle(p) ==
    CASE p = "opt_step" -> "callbacks"
      [] p = "callbacks" -> "update"
      [] p = "update" -> "test"

\* line 108: self.callbacks[onevent] = [callback]
SetCallbackList(old, cb) == <<cb>>

\* line 105: self.callbacks[onevent].append(callback)
AddCallbackList(old, cb) == Append(old, cb)

\* faulty variant: the handlers are called last registered first
Dispatched_Reversed(cbs, onevent) ==
    [k \in 1..Len(cbs[onevent]) |-> cbs[onevent][Len(cbs[onevent]) + 1 - k]]

\* lines 111-112: the handlers called for onevent, in call order
Dispatched(cbs, onevent) == cbs[onevent]

\* ------------------------------------------------------------------- Init
TrainerFresh ==
    /\ callbacks = [e \in Events |-> <<>>]
    /\ iter_num = 0
    /\ iter_time = 0
    /\ iter_dt = 0
    /\ pc = "idle"
    /\ i = 0
    /\ data_left = 0
    /\ now = 0
    /\ grad = {}
    /\ exc = "none"
    /\ runs = 0
    /\ trace = <<>>
    /\ calls = <<>>
    /\ stamps = <<>>
    /\ stepGrads = <<>>
    /\ regOrder = [e \in Events |-> <<>>]

\* the datasets as train_fsdp.py builds them, before any example is drawn
DataIdle ==
    /\ dcall = <<>>
    /\ rejected = 0
    /\ item = <<>>
    /\ repeat = <<>>

Init ==
    /\ config \in Configs
    /\ world_size \in WorldSizes
    /\ TrainerFresh
    /\ length = MaxLen
    /\ num_digits = DefaultNumDigits
    /\ hashkey = [p \in Procs |-> 0]
    /\ DataIdle

Returned == pc \in {"idle", "done", "raised"}

\* ---------------------------------------------------------------- registry
AddCallback(onevent, cb) ==
    /\ Returned
    /\ Len(callbacks[onevent]) < MaxCallbacks
    /\ callbacks' = [callbacks EXCEPT ![onevent] = AddCallbackList(@, cb)]
    /\ regOrder' = [regOrder EXCEPT ![onevent] = Append(@, cb)]
    /\ UNCHANGED <<config, world_size, iter_num, iter_time, iter_dt, pc, i,
                   data_left, now, grad, exc, runs, trace, calls, stamps, stepGrads>>
    /\ UNCHANGED dvars

SetCallback(onevent, cb) ==
    /\ Returned
    /\ callbacks' = [callbacks EXCEPT ![onevent] = SetCallbackList(@, cb)]
    /\ regOrder' = [regOrder EXCEPT ![onevent] = <<cb>>]
    /\ UNCHANGED <<config, world_size, iter_num, iter_time, iter_dt, pc, i,
                   data_left, now, grad, exc, runs, trace, calls, stamps, stepGrads>>
    /\ UNCHANGED dvars

\* --------------------------------------------------------------------- run
\* lines 115-146
RunStart ==
    /\ Returned
    /\ runs < MaxRuns
    /\ runs' = runs + 1
    /\ \E d \in ClockTicks :
         /\ now' = now + d
         /\ iter_time' = now + d
         /\ stamps' = <<now + d>>
    /\ iter_num' = 0
    /\ data_left' = LoaderLen(config, world_size)
    /\ i' = 0
    /\ pc' = "for"
    /\ exc' = "none"
    /\ trace' = <<>>
    /\ calls' = <<>>
    /\ stepGrads' = <<>>
    /\ UNCHANGED <<config, world_size, callbacks, iter_dt, grad, regOrder>>
    /\ UNCHANGED dvars

\* line 150
For ==
    /\ pc = "for"
    /\ pc' = ForNext(i, config.cross_batch_num)
    /\ i' = IF i < config.cross_batch_num THEN i + 1 ELSE i
    /\ UNCHANGED <<config, world_size, callbacks, iter_num, iter_time, iter_dt,
                   data_left, now, grad, exc, runs, trace, calls, stamps, stepGrads, regOrder>>
    /\ UNCHANGED dvars

\* lines 151-157: next(data_iter); on StopIteration line 154 evaluates the
\* name train_loader, which run() never binds (the loader is self.train_loader)
Fetch ==
    /\ pc = "fetch"
    /\ IF data_left > 0
       THEN /\ data_left' = data_left - 1
            /\ pc' = "forward"
            /\ exc' = exc
            /\ trace' = Append(trace, "fetch")
       ELSE /\ data_left' = data_left
            /\ pc' = "raised"
            /\ exc' = "NameError"
            /\ trace' = Append(trace, "StopIteration")
    /\ UNCHANGED <<config, world_size, callbacks, iter_num, iter_time, iter_dt,
                   i, now, grad, runs, calls, stamps, stepGrads, regOrder>>
    /\ UNCHANGED dvars

\* line 160
Forward ==
    /\ pc = "forward"
    /\ pc' = NextInPass("forward")
    /\ trace' = Append(trace, "forward")
    /\ UNCHANGED <<config, world_size, callbacks, iter_num, iter_time, iter_dt,
                   i, data_left, now, grad, exc, runs, calls, stamps, stepGrads, regOrder>>
    /\ UNCHANGED dvars

\* line 163
ZeroGrad ==
    /\ pc = "zero_grad"
    /\ pc' = NextInPass("zero_grad")
    /\ grad' = {}
    /\ trace' = Append(trace, "zero_grad")
    /\ UNCHANGED <<config, world_size, callbacks, iter_num, iter_time, iter_dt,
                   i, data_left, now, exc, runs, calls, stamps, stepGrads, regOrder>>
    /\ UNCHANGED dvars

\* line 164: backward() adds this pass's gradient to the buffers
Backward ==
    /\ pc = "backward"
    /\ pc' = NextInPass("backward")
    /\ grad' = grad \cup {Count(trace, "forward")}
    /\ trace' = Append(trace, "backward")
    /\ UNCHANGED <<config, world_size, callbacks, iter_num, iter_time, iter_dt,
                   i, data_left, now, exc, runs, calls, stamps, stepGrads, regOrder>>
    /\ UNCHANGED dvars

\* line 165
Clip ==
    /\ pc = "clip"
    /\ pc' = NextInPass("clip")
    /\ trace' = Append(trace, "clip")
    /\ UNCHANGED <<config, world_size, callbacks, iter_num, iter_time, iter_dt,
                   i, data_left, now, grad, exc, runs, calls, stamps, stepGrads, regOrder>>
    /\ UNCHANGED dvars

\* line 166
OptStep ==
    /\ pc = "opt_step"
    /\ pc' = NextInCycle("opt_step")
    /\ stepGrads' = Append(stepGrads, grad)
    /\ trace' = Append(trace, "step")
    /\ UNCHANGED <<config, world_size, callbacks, iter_num, iter_time, iter_dt,
                   i, data_left, now, grad, exc, runs, calls, stamps, regOrder>>
    /\ UNCHANGED dvars

\* what a handler is given: the trainer, of which it reads iter_num and iter_dt
Invocation(h, n) ==
    [handler |-> h, dispatch |-> n, iter_num |-> iter_num, iter_dt |-> iter_dt]

\* line 168 with lines 110-112
TriggerCallbacks ==
    /\ pc = "callbacks"
    /\ pc' = NextInCycle("callbacks")
    /\ LET hs == Dispatched(callbacks, "on_batch_end")
           n == Count(trace, "dispatch") + 1
       IN calls' = calls \o [k \in 1..Len(hs) |-> Invocation(hs[k], n)]
    /\ trace' = Append(trace, "dispatch")
    /\ UNCHANGED <<config, world_size, callbacks, iter_num, iter_time, iter_dt,
                   i, data_left, now, grad, exc, runs, stamps, stepGrads, regOrder>>
    /\ UNCHANGED dvars

\* lines 169-172
Update ==
    /\ pc = "update"
    /\ pc' = NextInCycle("update")
    /\ iter_num' = iter_num + 1
    /\ \E d \in ClockTicks :
         /\ now' = now + d
         /\ iter_dt' = (now + d) - iter_time
         /\ iter_time' = now + d
         /\ stamps' = Append(stamps, now + d)
    /\ trace' = Append(trace, "inc")
    /\ UNCHANGED <<config, world_size, callbacks, i, data_left, grad, exc,
                   runs, calls, stepGrads, regOrder>>
    /\ UNCHANGED dvars

\* lines 175-179
TermTest ==
    /\ pc = "test"
    /\ IF ShouldBreak(config.max_iters, iter_num)
       THEN pc' = "done" /\ i' = i
       ELSE /\ Count(trace, "step") < MaxCycles
            /\ pc' = "for"
            /\ i' = 0
    /\ UNCHANGED <<config, world_size, callbacks, iter_num, iter_time, iter_dt,
                   data_left, now, grad, exc, runs, trace, calls, stamps, stepGrads, regOrder>>
    /\ UNCHANGED dvars

RunStep ==
    \/ For
    \/ Fetch
    \/ Forward
    \/ ZeroGrad
    \/ Backward
    \/ Clip
    \/ OptStep
    \/ TriggerCallbacks
    \/ Update
    \/ TermTest

\* the trainer as train_fsdp.py drives it: handlers are installed with
\* set_callback (line 159), under every configuration
Next ==
    \/ \E e \in Events, h \in Handlers : SetCallback(e, h)
    \/ RunStart
    \/ RunStep

Spec == Init /\ [][Next]_vars

\* the whole registry (add_callback and set_callback) around runs that
\* terminate
CallbackConfigs ==
    {c \in Configs : ~c.use_fsdp /\ c.cross_batch_num = 1 /\ c.batch_size = 5000
                      /\ c.max_iters \in {Some(1), Some(MaxIters)}}

CallbackInit ==
    /\ config \in CallbackConfigs
    /\ world_size = 1
    /\ TrainerFresh
    /\ length = MaxLen
    /\ num_digits = DefaultNumDigits
    /\ hashkey = [p \in Procs |-> 0]
    /\ DataIdle

CallbackNext ==
    \/ \E e \in Events, h \in Handlers : AddCallback(e, h)
    \/ \E e \in Events, h \in Handlers : SetCallback(e, h)
    \/ RunStart
    \/ RunStep

CallbackSpec == CallbackInit /\ [][CallbackNext]_vars

\* ================================================================ dataset
\* torch.sort(inp)[0]: ascending, by insertion
RECURSIVE InsertSorted(_, _)
InsertSorted(v, s) ==
    IF s = <<>> THEN <<v>>
    ELSE IF v <= Head(s) THEN <<v>> \o s
    ELSE <<Head(s)>> \o InsertSorted(v, Tail(s))

\* faulty variant: the solution is the input as generated
SortTensor_Unsorted(s) == s

RECURSIVE SortTensor(_)
SortTensor(s) ==
    IF s = <<>> THEN <<>> ELSE InsertSorted(Head(s), SortTensor(Tail(s)))

\* inp.unique().nelement()
UniqueCount(s) == Cardinality({s[k] : k \in 1..Len(s)})

\* pickle.dumps(list of ints in 0..255), protocol 4: PROTO 4, a FRAME with the
\* 8-byte little-endian length when the body has 4 bytes or more, then
\* EMPTY_LIST MEMOIZE, the items as BININT1 (MARK ... APPENDS for two or more,
\* APPEND for one), STOP
RECURSIVE PickleItems(_)
PickleItems(l) ==
    IF l = <<>> THEN <<>> ELSE <<75, Head(l)>> \o PickleItems(Tail(l))

PickleBody(l) ==
    <<93, 148>> \o
    (IF Len(l) = 0 THEN <<>>
     ELSE IF Len(l) = 1 THEN PickleItems(l) \o <<97>>
     ELSE <<40>> \o PickleItems(l) \o <<101>>) \o
    <<46>>

PickleDumps(l) ==
    LET body == PickleBody(l)
    IN IF Len(body) >= 4
       THEN <<128, 4, 149, Len(body), 0, 0, 0, 0, 0, 0, 0>> \o body
       ELSE <<128, 4>> \o body

\* hash(bytes): the interpreter's hash of a byte string is keyed with a secret
\* drawn when the process starts (hash randomization).  The keyed function is
\* kept in the shape of CPython's byte-string hash (key, multiply-and-mix per
\* byte, length, key) on HashBits bits, with + for the exclusive or.
HashMod == 2 ^ HashBits

RECURSIVE HashMix(_, _)
HashMix(x, bytes) ==
    IF bytes = <<>> THEN x
    ELSE HashMix((HashMultiplier * x + Head(bytes)) % HashMod, Tail(bytes))

PyHash(bytes, key) ==
    (HashMix((key + bytes[1] * 128) % HashMod, bytes) + Len(bytes) + key) % HashMod

\* line 47: torch.randint(num_digits, size=(length,))
Inputs(L, D) == [1..L -> 0..(D - 1)]

\* lines 56-57
SplitLabel(inp, key) ==
    IF PyHash(PickleDumps(inp), key) % TestModulus = 0 THEN "test" ELSE "train"

\* SplitLabel tabulated once over the inputs explored
SplitTable ==
    [key \in HashKeys |->
        [L \in 1..MaxLen |-> [inp \in Inputs(L, DefaultNumDigits) |-> SplitLabel(inp, key)]]]

SplitOf(inp, key) == SplitTable[key][Len(inp)][inp]

\* line 71: y[:self.length-1] = -1
MaskedPrefix(L) == L - 1

\* lines 62-71
Example(inp, L) ==
    LET sol == SortTensor(inp)
        cat == inp \o sol
        x == SubSeq(cat, 1, Len(cat) - 1)
        y == SubSeq(cat, 2, Len(cat))
    IN [x |-> x,
        y |-> [k \in 1..Len(y) |-> IF k <= MaskedPrefix(L) THEN IgnoreIndex ELSE y[k]]]

\* line 40
BlockSize(L) == L * 2 - 1

\* lines 51-54: the sample is discarded before its split is looked at
TooManyUnique(boost, inp, L) == boost /\ UniqueCount(inp) > L \div 2

\* Trainer.get_default_config
DefaultConfig ==
    [max_iters |-> None, cross_batch_num |-> 1, use_fsdp |-> FALSE, batch_size |-> 64]

DataInit ==
    /\ config = DefaultConfig
    /\ world_size = 1
    /\ TrainerFresh
    /\ length \in 1..MaxLen
    /\ num_digits \in 1..DefaultNumDigits
    /\ hashkey \in [Procs -> HashKeys]
    /\ DataIdle

\* the draws (inp, boost) of lines 47 and 51 that reach break at line 59 in
\* process p on the dataset of split s: the inputs they carry
Acceptable(p, s) ==
    {inp \in Inputs(length, num_digits) :
        /\ SplitOf(inp, hashkey[p]) = s
        /\ \E boost \in BOOLEAN : ~TooManyUnique(boost, inp, length)}

\* the draws that end in continue (line 54) or fail the test of line 58
Rejectable(p, s) ==
    {inp \in Inputs(length, num_digits) :
        \/ SplitOf(inp, hashkey[p]) # s
        \/ \E boost \in BOOLEAN : TooManyUnique(boost, inp, length)}

\* dataset[idx] is evaluated in process p on the dataset built for split s
GetItem(p, s) ==
    /\ dcall = <<>>
    /\ dcall' = <<[proc |-> p, split |-> s]>>
    /\ rejected' = 0
    /\ UNCHANGED <<length, num_digits, hashkey, item, repeat>>
    /\ UNCHANGED tvars

\* lines 45-59, one turn of the rejection loop that ends in continue
Resample ==
    /\ dcall # <<>>
    /\ rejected < MaxRejects
    /\ Rejectable(dcall[1].proc, dcall[1].split) # {}
    /\ rejected' = rejected + 1
    /\ UNCHANGED <<length, num_digits, hashkey, dcall, item, repeat>>
    /\ UNCHANGED tvars

\* lines 45-72, the turn of the rejection loop that ends in break, and the return
ReturnItem ==
    /\ dcall # <<>>
    /\ \E inp \in Acceptable(dcall[1].proc, dcall[1].split) :
         /\ item' = <<[proc |-> dcall[1].proc, split |-> dcall[1].split, inp |-> inp,
                       x |-> Example(inp, length).x, y |-> Example(inp, length).y]>>
         /\ repeat' = IF item # <<>> /\ item[1].inp = inp
                      THEN <<item[1].split, dcall[1].split>>
                      ELSE <<>>
    /\ dcall' = <<>>
    /\ rejected' = 0
    /\ UNCHANGED <<length, num_digits, hashkey>>
    /\ UNCHANGED tvars

DataNext ==
    \/ \E p \in Procs, s \in Splits : GetItem(p, s)
    \/ Resample
    \/ ReturnItem

DataSpec == DataInit /\ [][DataNext]_vars

\* ================================================================= claims
K == config.cross_batch_num
Steps == Count(trace, "step")
PrefixCount(n, e) == Count(SubSeq(trace, 1, n), e)
FiniteMax == ~IsNone(config.max_iters)

\* calls made by the n-th dispatch of the current run, as a list of handlers
HandlersOf(n) ==
    LET cs == SelectSeq(calls, LAMBDA c : c.dispatch = n)
    IN [k \in 1..Len(cs) |-> cs[k].handler]

C2_OneStepPerCycle ==
    /\ Count(trace, "dispatch") \in {Steps - 1, Steps}
    /\ \A p \in 1..Len(trace) :
         /\ trace[p] = "step" =>
              /\ PrefixCount(p, "forward") = K * PrefixCount(p, "step")
              /\ PrefixCount(p, "backward") = K * PrefixCount(p, "step")
         /\ trace[p] = "dispatch" =>
              /\ p > 1 /\ trace[p - 1] = "step"
              /\ PrefixCount(p, "dispatch") = PrefixCount(p, "step")

C2_Witness ==
    /\ K = 2
    /\ Steps = 2
    /\ Count(trace, "dispatch") = 2
    /\ Count(trace, "forward") = 4

\* C3 (as claimed): the gradient buffers are zeroed exactly once per cycle, so
\* the j-th optimizer step is preceded by exactly j zero_grad calls and steps
\* on the gradients of all k passes of its cycle.
C3_ZeroedOncePerCycle ==
    \A p \in 1..Len(trace) :
        trace[p] = "step" =>
            LET j == PrefixCount(p, "step")
            IN /\ PrefixCount(p, "zero_grad") = j
               /\ stepGrads[j] = ((j - 1) * K + 1)..(j * K)

\* what the code does instead: one zero_grad per pass, and the step sees the
\* gradient of the last pass of the cycle alone
C3_ZeroedEveryPass ==
    \A p \in 1..Len(trace) :
        trace[p] = "step" =>
            LET j == PrefixCount(p, "step")
            IN /\ PrefixCount(p, "zero_grad") = j * K
               /\ stepGrads[j] = {j * K}

\* C4: every pass runs forward, then backward, then clip_grad_norm_, once each
\* and in that order, and the k clips of a cycle all precede its optimizer step.
C4_ClipEveryPass ==
    \A p \in 1..Len(trace) :
        /\ PrefixCount(p, "clip") <= PrefixCount(p, "backward")
        /\ PrefixCount(p, "backward") <= PrefixCount(p, "forward")
        /\ PrefixCount(p, "forward") <= PrefixCount(p, "clip") + 1
        /\ trace[p] = "step" =>
              PrefixCount(p, "clip") = K * PrefixCount(p, "step")

C4_Witness ==
    /\ K = 2
    /\ Steps = 1
    /\ Count(trace, "clip") = 2

\* C5: the registry holds, per event, the handlers in registration order
\* (set_callback leaving only its handler), and while run() executes every
\* dispatch of on_batch_end has called exactly the handlers registered for
\* on_batch_end, once each, in that order, each seeing the trainer as it is
\* at the dispatch.
C5_DispatchInRegistrationOrder ==
    /\ callbacks = regOrder
    /\ ~Returned =>
         /\ \A n \in 1..Count(trace, "dispatch") :
                HandlersOf(n) = regOrder["on_batch_end"]
         /\ Len(calls) = Count(trace, "dispatch") * Len(regOrder["on_batch_end"])
         /\ \A c \in 1..Len(calls) : calls[c].dispatch \in 1..Count(trace, "dispatch")

C5_Witness ==
    /\ pc = "update"
    /\ callbacks["on_batch_end"] = <<"other_callback", "batch_end_callback">>
    /\ callbacks["on_eval"] = <<"batch_end_callback">>
    /\ Count(trace, "dispatch") = 2
    /\ Len(calls) = 4

\* C8 (as claimed): when next(data_iter) raises StopIteration the loop makes a
\* new iterator over the loader, takes its first batch and goes on with the
\* same pass, without raising.
C8_ExhaustionRecovers ==
    (trace # <<>> /\ trace[Len(trace)] = "StopIteration") =>
        /\ exc = "none"
        /\ pc = "forward"
        /\ data_left = LoaderLen(config, world_size) - 1

\* what the code does instead
C8_ExhaustionRaises ==
    (trace # <<>> /\ trace[Len(trace)] = "StopIteration") =>
        /\ exc = "NameError"
        /\ pc = "raised"

\* C9 (as claimed): iter_num counts the completed cycles of the current run,
\* handlers of the j-th dispatch see iter_num = j-1, at return iter_num is the
\* number of optimizer steps, and handlers of the j-th dispatch see iter_dt =
\* duration of cycle j-1, 0 in the first dispatch.
C9_IterationState ==
    runs > 0 =>
        /\ iter_num = Count(trace, "inc")
        /\ (pc = "done" => iter_num = Steps)
        /\ \A c \in 1..Len(calls) :
             /\ calls[c].iter_num = calls[c].dispatch - 1
             /\ calls[c].iter_dt =
                   IF calls[c].dispatch = 1 THEN 0
                   ELSE stamps[calls[c].dispatch] - stamps[calls[c].dispatch - 1]

\* the part of C9 the code keeps: everything but the 0 of the first dispatch,
\* which holds in the first run() of a trainer only
C9_IterationStateFirstRun ==
    runs > 0 =>
        /\ iter_num = Count(trace, "inc")
        /\ (pc = "done" => iter_num = Steps)
        /\ \A c \in 1..Len(calls) :
             /\ calls[c].iter_num = calls[c].dispatch - 1
             /\ calls[c].dispatch > 1 =>
                   calls[c].iter_dt =
                       stamps[calls[c].dispatch] - stamps[calls[c].dispatch - 1]
             /\ (calls[c].dispatch = 1 /\ runs = 1) => calls[c].iter_dt = 0

\* C10 (as claimed): with max_iters <= 0 run() performs exactly one cycle and
\* returns with iter_num = 1; with max_iters = None it never stops.
RunEnded == pc \in {"done", "raised"}

C10_TestAfterFullCycle ==
    /\ (FiniteMax /\ config.max_iters[1] <= 0 /\ RunEnded) =>
          /\ pc = "done"
          /\ Steps = 1
          /\ Count(trace, "forward") = K
          /\ Count(trace, "backward") = K
          /\ Count(trace, "dispatch") = 1
          /\ iter_num = 1
    /\ (~FiniteMax => ~RunEnded)

\* the part of C10 the code keeps: the test comes after a full cycle whenever
\* the data iterator is not exhausted
C10_TestAfterFullCycleIfReturned ==
    /\ (FiniteMax /\ config.max_iters[1] <= 0 /\ pc = "done") =>
          /\ Steps = 1
          /\ Count(trace, "forward") = K
          /\ Count(trace, "dispatch") = 1
          /\ iter_num = 1
    /\ (~FiniteMax => pc # "done")
    /\ (pc = "test" => trace[Len(trace)] = "inc")

\* C6: an example returned for length L has x and y of length 2L-1 =
\* get_block_size(); the last L positions of y are non-decreasing and hold the
\* values of inp with their multiplicities; y is IgnoreIndex at exactly its
\* first L-1 positions; x is inp followed by the first L-1 sorted values.
C6_ExampleShape ==
    item # <<>> =>
        LET e == item[1]
            L == length
            sol == SubSeq(e.y, L, 2 * L - 1)
        IN /\ Len(e.x) = 2 * L - 1
           /\ Len(e.y) = 2 * L - 1
           /\ BlockSize(L) = Len(e.x)
           /\ Len(e.inp) = L
           /\ \A k \in 1..(L - 1) : sol[k] <= sol[k + 1]
           /\ \A v \in {sol[k] : k \in 1..L} \cup {e.inp[k] : k \in 1..L} :
                 Count(sol, v) = Count(e.inp, v)
           /\ \A k \in 1..(2 * L - 1) : (e.y[k] = IgnoreIndex) <=> (k <= L - 1)
           /\ e.x = e.inp \o SubSeq(sol, 1, L - 1)

C6_Witness ==
    /\ item # <<>>
    /\ length = 3
    /\ num_digits = 3
    /\ item[1].split = "test"
    /\ item[1].inp[1] > item[1].inp[2]
    /\ item[1].inp[2] = item[1].inp[3]

\* C7 (as claimed): the split label of an input sequence is the same in every
\* process, so the label under which an example was returned is the label any
\* process computes for it, and an input sequence returned twice was returned
\* by datasets of one split.
C7_SplitDependsOnContentOnly ==
    repeat # <<>> =>
        /\ repeat[1] = repeat[2]
        /\ \A q \in Procs : SplitOf(item[1].inp, hashkey[q]) = item[1].split

\* what the code keeps: within the process that drew it, the label of a returned
\* example is the dataset's split
C7_SplitWithinProcess ==
    item # <<>> => SplitOf(item[1].inp, hashkey[item[1].proc]) = item[1].split

====
